---- MODULE Spec2Model ----
(***************************************************************************)
(* Form 8962 (Premium Tax Credit) derivation engine of income_tax:         *)
(* the poverty-line and applicable-figure lookups, the monthly table and   *)
(* the derivation chain of Form8962.                                       *)
(*                                                                         *)
(* Python floats are IEEE-754 doubles.  A double is modelled exactly as a  *)
(* record [s, m, e]: sign s (1 or -1), mantissa m (53 bits, most           *)
(* significant first, leading 1; <<>> for zero) and e, the binary exponent *)
(* of the last mantissa bit.  Every arithmetic step rounds to nearest,     *)
(* ties to even, as the hardware does.                                     *)
(***************************************************************************)
EXTENDS Integers, Sequences, FiniteSets, TLC

\* Python's None, and a present value.
None == <<>>
Some(v) == <<v>>
IsNone(o) == o = <<>>
Val(o) == o[1]

\* The outcome of evaluating a property: a value, or the exception raised.
Ok(v) == [st |-> "ok", val |-> <<v>>]
Raise(e) == [st |-> e, val |-> <<>>]
IsOk(r) == r.st = "ok"
Get(r) == r.val[1]
\* An exception raised while r is evaluated propagates; else F of its value.
Then(r, F(_)) == IF IsOk(r) THEN F(Get(r)) ELSE r

Abs(n) == IF n < 0 THEN -n ELSE n
Sign(n) == IF n < 0 THEN -1 ELSE 1

\* 2^n for the n an int can hold.
Pow2(n) ==
    << 1, 2, 4, 8, 16, 32, 64, 128, 256, 512, 1024, 2048, 4096, 8192, 16384,
       32768, 65536, 131072, 262144, 524288, 1048576, 2097152, 4194304,
       8388608, 16777216, 33554432, 67108864, 134217728, 268435456,
       536870912, 1073741824 >>[n + 1]

Zeros(n) == [i \in 1..n |-> 0]
Front(s) == SubSeq(s, 1, Len(s) - 1)
Last(s) == s[Len(s)]

--------------------------------------------------------------------------
(* IEEE-754 binary64 arithmetic on bit sequences. *)

MantissaBits == 53

\* The number of bits of n >= 0 (0 for 0).
BitLen(n) == Cardinality({i \in 0..30 : Pow2(i) <= n})

\* The k lowest bits of n, most significant first.
LowBits(n, k) == [i \in 1..k |-> (n \div Pow2(k - i)) % 2]

\* n >= 0 as a bit string without leading zeros, and back.
IntToBits(n) == LowBits(n, BitLen(n))

RECURSIVE BitsToInt(_)
BitsToInt(b) ==
    IF Len(b) = 0 THEN 0
    ELSE IF Len(b) = 1 THEN b[1]
    ELSE LET h == Len(b) \div 2
         IN BitsToInt(SubSeq(b, 1, h)) * Pow2(Len(b) - h)
                + BitsToInt(SubSeq(b, h + 1, Len(b)))

AnyOne(b) == \E i \in 1..Len(b) : b[i] = 1

\* b + 1: the trailing ones cleared and the zero before them set.
IncBits(b) ==
    IF \A i \in 1..Len(b) : b[i] = 1 THEN <<1>> \o Zeros(Len(b))
    ELSE LET z == CHOOSE i \in 1..Len(b) :
                      b[i] = 0 /\ \A j \in (i + 1)..Len(b) : b[j] = 1
         IN [i \in 1..Len(b) |-> IF i < z THEN b[i] ELSE IF i = z THEN 1 ELSE 0]

FloatZero == [s |-> 1, m |-> <<>>, e |-> 0]

\* Round the exact value s * b * 2^e (b a bit string with a leading 1) to a
\* double: nearest, ties to even.
RoundToDouble(s, b, e) ==
    IF Len(b) <= MantissaBits
    THEN [s |-> s, m |-> b \o Zeros(MantissaBits - Len(b)),
          e |-> e - (MantissaBits - Len(b))]
    ELSE LET keep == SubSeq(b, 1, MantissaBits)
             guard == b[MantissaBits + 1]
             sticky == AnyOne(SubSeq(b, MantissaBits + 2, Len(b)))
             drop == Len(b) - MantissaBits
             up == guard = 1 /\ (sticky \/ keep[MantissaBits] = 1)
             inc == IncBits(keep)
         IN IF ~up THEN [s |-> s, m |-> keep, e |-> e + drop]
            ELSE IF Len(inc) > MantissaBits
                 THEN [s |-> s, m |-> Front(inc), e |-> e + drop + 1]
                 ELSE [s |-> s, m |-> inc, e |-> e + drop]

\* An int converted to float (exact below 2^53).
IntToFloat(n) ==
    IF n = 0 THEN FloatZero ELSE RoundToDouble(Sign(n), IntToBits(Abs(n)), 0)

\* Long division and multiplication go ChunkBits bits at a step.
ChunkBits == 6

\* The next n quotient bits of r / d, for 0 <= r < d, then one more bit that
\* is 1 iff the remainder left is not zero (the sticky bit).
RECURSIVE DivBits(_, _, _)
DivBits(r, d, n) ==
    IF n = 0 THEN <<IF r = 0 THEN 0 ELSE 1>>
    ELSE LET k == IF n >= ChunkBits THEN ChunkBits ELSE n
             t == r * Pow2(k)
         IN LowBits(t \div d, k) \o DivBits(t % d, d, n - k)

\* The largest s with b * 2^s <= a, for a >= b > 0.
ShiftDown(a, b) == BitLen(a \div b) - 1

\* The smallest t with a * 2^t >= b, for 0 < a.
ShiftUp(a, b) == Cardinality({i \in 0..30 : Pow2(i) < (b + a - 1) \div a})

\* float(a) / float(b) for ints a, b (b # 0) that are exact as floats: the
\* quotient a / b correctly rounded.
FloatDiv(a, b) ==
    IF a = 0 THEN FloatZero
    ELSE LET n == Abs(a)
             d == Abs(b)
             sg == Sign(a) * Sign(b)
             top == IF n >= d THEN ShiftDown(n, d) ELSE -ShiftUp(n, d)
             n0 == IF top < 0 THEN n * Pow2(-top) ELSE n
             d0 == IF top > 0 THEN d * Pow2(top) ELSE d
             \* 1 <= n0 / d0 < 2: 1 + 53 more bits + sticky
             q == <<1>> \o DivBits(n0 - d0, d0, MantissaBits)
         IN RoundToDouble(sg, q, top - MantissaBits - 1)

\* b * k + carry as a bit string, for a bit string b and an int k > 0.
RECURSIVE MulBits(_, _, _)
MulBits(b, k, carry) ==
    IF carry = 0 /\ b = <<>> THEN <<>>
    ELSE IF b = <<>> THEN IntToBits(carry)
    ELSE LET n == IF Len(b) >= ChunkBits THEN ChunkBits ELSE Len(b)
             low == BitsToInt(SubSeq(b, Len(b) - n + 1, Len(b)))
             t == k * low + carry
         IN MulBits(SubSeq(b, 1, Len(b) - n), k, t \div Pow2(n))
                \o LowBits(t, n)

\* x * float(k) for a double x and an int k exact as a float: the product
\* correctly rounded.
FloatMulInt(x, k) ==
    IF x.m = <<>> \/ k = 0 THEN FloatZero
    ELSE RoundToDouble(x.s * Sign(k), MulBits(x.m, Abs(k), 0), x.e)

\* x <= float(n) for a double x and an int n.
FloatLeqInt(x, n) ==
    LET y == IntToFloat(n)
        \* magnitude comparison of two non-zero doubles
        MagLess(a, b) ==
            \/ a.e < b.e
            \/ a.e = b.e /\ \E i \in 1..MantissaBits :
                   /\ a.m[i] < b.m[i]
                   /\ \A j \in 1..(i - 1) : a.m[j] = b.m[j]
        Less(a, b) ==
            IF a.m = <<>> THEN b.m # <<>> /\ b.s = 1
            ELSE IF b.m = <<>> THEN a.s = -1
            ELSE IF a.s # b.s THEN a.s = -1
            ELSE IF a.s = 1 THEN MagLess(a, b) ELSE MagLess(b, a)
    IN ~Less(y, x)

\* The integer part of |x| and the bits after the binary point.
IntBits(x) ==
    IF x.e >= 0 THEN x.m \o Zeros(x.e)
    ELSE IF MantissaBits + x.e <= 0 THEN <<>>
    ELSE SubSeq(x.m, 1, MantissaBits + x.e)
FracBits(x) ==
    IF x.e >= 0 THEN <<>>
    ELSE IF MantissaBits + x.e < 0
         THEN Zeros(-(MantissaBits + x.e)) \o x.m
    ELSE SubSeq(x.m, MantissaBits + x.e + 1, MantissaBits)

\* int(x): truncation toward zero.
FloatToInt(x) == IF x.m = <<>> THEN 0 ELSE x.s * BitsToInt(IntBits(x))

\* int(round(x, 0)): Python's round is to nearest, ties to the even integer.
FloatRound(x) ==
    IF x.m = <<>> THEN 0
    ELSE LET i == BitsToInt(IntBits(x))
             f == FracBits(x)
             up == /\ f # <<>>
                   /\ f[1] = 1
                   /\ (AnyOne(SubSeq(f, 2, Len(f))) \/ i % 2 = 1)
         IN x.s * (IF up THEN i + 1 ELSE i)

--------------------------------------------------------------------------
(* data_models.py: the poverty-line tables and the applicable figures.     *)
(* Dollar amounts (WholeDollar) are floats holding whole numbers far below *)
(* 2^53, on which + - * min max and comparisons are exact: they are        *)
(* modelled as integers.                                                   *)

StateOfResidenceEnum == {"CONTIGUOUS_48_AND_DC", "ALASKA", "HAWAII"}

CONTIGUOUS_48_AND_DC ==
    <<13590, 18310, 23030, 27750, 32470, 37190, 41910, 46630>>
CONTIGUOUS_48_AND_DC_EXTRA == 4720

ALASKA == <<16990, 22890, 28790, 34690, 40590, 46490, 52390, 58290>>
ALASKA_EXTRA == 5900

HAWAII == <<15630, 21060, 26490, 31920, 37350, 42780, 48210, 53640>>
HAWAII_EXTRA == 5430

\* The registry: one PovertyLineTable per state of residence.  values is a
\* mapping from family size (its DOMAIN are the dict's keys) to dollars.
poverty_lines ==
    << [state_of_residence |-> "CONTIGUOUS_48_AND_DC",
        values |-> CONTIGUOUS_48_AND_DC,
        additional_person_extra |-> CONTIGUOUS_48_AND_DC_EXTRA],
       [state_of_residence |-> "ALASKA",
        values |-> ALASKA,
        additional_person_extra |-> ALASKA_EXTRA],
       [state_of_residence |-> "HAWAII",
        values |-> HAWAII,
        additional_person_extra |-> HAWAII_EXTRA] >>

\* max and min of a set of ints (the first conjunct only speeds the search).
MaxOf(S) == CHOOSE x \in S : (x + 1) \notin S /\ \A y \in S : y <= x
MinOf(S) == CHOOSE x \in S : (x - 1) \notin S /\ \A y \in S : x <= y

\* A slip in the extrapolation: the persons beyond the table counted one short.
Mutant_PovertyLineTable_get_poverty_rate(t, tax_family_size) ==
    IF tax_family_size \in DOMAIN t.values
    THEN t.values[tax_family_size]
    ELSE LET largest_size == MaxOf(DOMAIN t.values)
         IN t.values[largest_size]
            + (tax_family_size - largest_size - 1) * t.additional_person_extra

\* PovertyLineTable.get_poverty_rate: the tabulated value, or on KeyError
\* the value at the largest size plus the extra per additional person.
PovertyLineTable_get_poverty_rate(t, tax_family_size) ==
    IF tax_family_size \in DOMAIN t.values
    THEN t.values[tax_family_size]
    ELSE LET largest_size == MaxOf(DOMAIN t.values)
             largest_value == t.values[largest_size]
             additional_persons == tax_family_size - largest_size
             adder == additional_persons * t.additional_person_extra
         IN largest_value + adder

\* PovertyLines.get_state_table: the one table of the state, ValueError when
\* none or several match.
get_state_table(root, state_of_residence) ==
    LET filtered_list == SelectSeq(root,
            LAMBDA t : t.state_of_residence = state_of_residence)
        results == Len(filtered_list)
    IN IF results > 1 THEN Raise("ValueError")
       ELSE IF results = 0 THEN Raise("ValueError")
       ELSE Ok(filtered_list[1])

\* PovertyLines.get_poverty_rate
get_poverty_rate(root, state_of_residence, tax_family_size) ==
    Then(get_state_table(root, state_of_residence), LAMBDA t :
        Ok(PovertyLineTable_get_poverty_rate(t, tax_family_size)))

\* applicable_figures_dict: percent of the poverty line -> applicable figure.
\* A figure is written in ten-thousandths: 512 stands for the literal 0.0512.
FigureScale == 10000
FirstFigureKey == 150
applicable_figures_dict ==
    LET figures == <<
          0,   4,   8,  12,  16,  20,  24,  28,  32,  36,
         40,  44,  48,  52,  56,  60,  64,  68,  72,  76,
         80,  84,  88,  92,  96, 100, 104, 108, 112, 116,
        120, 124, 128, 132, 136, 140, 144, 148, 152, 156,
        160, 164, 168, 172, 176, 180, 184, 188, 192, 196,
        200, 204, 208, 212, 216, 220, 224, 228, 232, 236,
        240, 244, 248, 252, 256, 260, 264, 268, 272, 276,
        280, 284, 288, 292, 296, 300, 304, 308, 312, 316,
        320, 324, 328, 332, 336, 340, 344, 348, 352, 356,
        360, 364, 368, 372, 376, 380, 384, 388, 392, 396,
        400, 404, 408, 412, 416, 420, 424, 428, 432, 436,
        440, 444, 448, 452, 456, 460, 464, 468, 472, 476,
        480, 484, 488, 492, 496, 500, 504, 508, 512, 516,
        520, 524, 528, 532, 536, 540, 544, 548, 552, 556,
        560, 564, 568, 572, 576, 580, 584, 588, 592, 596,
        600, 603, 605, 608, 610, 613, 615, 618, 620, 623,
        625, 628, 630, 633, 635, 638, 640, 643, 645, 648,
        650, 653, 655, 658, 660, 663, 665, 668, 670, 673,
        675, 678, 680, 683, 685, 688, 690, 693, 695, 698,
        700, 703, 705, 708, 710, 713, 715, 718, 720, 723,
        725, 728, 730, 733, 735, 738, 740, 743, 745, 748,
        750, 753, 755, 758, 760, 763, 765, 768, 770, 773,
        775, 778, 780, 783, 785, 788, 790, 793, 795, 798,
        800, 803, 805, 808, 810, 813, 815, 818, 820, 823,
        825, 828, 830, 833, 835, 838, 840, 843, 845, 848,
        850 >>
    IN [p \in FirstFigureKey..(FirstFigureKey + Len(figures) - 1) |->
            figures[p - FirstFigureKey + 1]]

\* A slip in the clamping: no clamp above the largest key.
Mutant_ApplicableFigures_get_figure(figures, percent) ==
    LET min_percent == MinOf(DOMAIN figures)
    IN IF percent <= min_percent THEN Ok(figures[min_percent])
       ELSE IF percent \in DOMAIN figures THEN Ok(figures[percent])
       ELSE Raise("KeyError")

\* A slip in the clamping: above the largest key the smallest key's figure.
Mutant_ApplicableFigures_get_figure_Wrap(figures, percent) ==
    LET min_percent == MinOf(DOMAIN figures)
        max_percent == MaxOf(DOMAIN figures)
    IN IF percent <= min_percent THEN Ok(figures[min_percent])
       ELSE IF percent > max_percent THEN Ok(figures[min_percent])
       ELSE IF percent \in DOMAIN figures THEN Ok(figures[percent])
       ELSE Raise("KeyError")

\* ApplicableFigures.get_figure over a figures mapping: clamp to the smallest
\* and largest key, else a plain dict lookup (KeyError on a missing key).
ApplicableFigures_get_figure(figures, percent) ==
    LET min_percent == MinOf(DOMAIN figures)
        max_percent == MaxOf(DOMAIN figures)
    IN IF percent <= min_percent THEN Ok(figures[min_percent])
       ELSE IF percent > max_percent THEN Ok(figures[max_percent])
       ELSE IF percent \in DOMAIN figures THEN Ok(figures[percent])
       ELSE Raise("KeyError")

\* applicable_figures.get_figure
get_figure(percent) ==
    ApplicableFigures_get_figure(applicable_figures_dict, percent)

\* The float a figure's literal denotes: the double nearest to n / 10000.
FigureFloat(n) == FloatDiv(n, FigureScale)

--------------------------------------------------------------------------
(* custom_types.py *)

\* make_whole_number: int(value), the digits after the point removed.
make_whole_number(value) == FloatToInt(value)

\* An amount given as a decimal literal with two decimals (cents / 100).
Literal(cents) == FloatDiv(cents, 100)

\* WholeDollar = Annotated[float, BeforeValidator(make_whole_number)]: the
\* input is cut to whole dollars when the model is built.
WholeDollar(cents) == make_whole_number(Literal(cents))
OptWholeDollar(o) == IF IsNone(o) THEN None ELSE Some(WholeDollar(Val(o)))

\* A slip in the pattern: the second dash optional.
Mutant_validate_ssn_pattern(value) ==
    \/ Len(value) = 11 /\ \A i \in 1..11 :
           value[i] = (IF i \in {4, 7} THEN "-" ELSE "d")
    \/ Len(value) = 10 /\ \A i \in 1..10 :
           value[i] = (IF i = 4 THEN "-" ELSE "d")
    \/ Len(value) = 9 /\ \A i \in 1..9 : value[i] = "d"

\* A character of an SSN string is "d" (a digit), "-" or "x" (anything
\* else).  re.match(r"^\d{3}-\d{2}-\d{4}$|^\d{9}$", value)
IsDigits(s, from, to) == \A i \in from..to : s[i] = "d"
validate_ssn_pattern(value) ==
    \/ Len(value) = 11 /\ IsDigits(value, 1, 3) /\ value[4] = "-"
          /\ IsDigits(value, 5, 6) /\ value[7] = "-" /\ IsDigits(value, 8, 11)
    \/ Len(value) = 9 /\ IsDigits(value, 1, 9)

--------------------------------------------------------------------------
(* year2022.py: MonthlyCalculationRow and MonthlyCalculationTable *)

\* MonthlyCalculationRow(a=, b=, c=, f=)
MonthlyCalculationRow(a, b, c, f) ==
    [a |-> WholeDollar(a), b |-> WholeDollar(b),
     c |-> WholeDollar(c), f |-> WholeDollar(f)]

\* Lines 12-23(d)
Max2(x, y) == IF x > y THEN x ELSE y
Min2(x, y) == IF x <= y THEN x ELSE y

\* assistance if assistance > 0 else 0
monthly_max_premium_assist(row) == Max2(row.b - row.c, 0)

\* Lines 12-23(e)
monthly_allowed_tax_credit(row) ==
    Min2(row.a, monthly_max_premium_assist(row))

\* The twelve fields of MonthlyCalculationTable, in declaration order.
model_fields ==
    <<"january", "february", "march", "april", "may", "june", "july",
      "august", "september", "october", "november", "december">>
Months == 1..Len(model_fields)

\* MonthlyCalculationTable(**kwargs): kwargs maps some months to a row or to
\* None.  A field not given keeps its default None; model_fields_set holds
\* the fields that were given, whatever their value.
MonthlyCalculationTable(kwargs) ==
    [slots |-> [m \in Months |->
                    IF m \in DOMAIN kwargs THEN kwargs[m] ELSE None],
     model_fields_set |-> DOMAIN kwargs]

\* MonthlyCalculationTable.total_tax_credit: over model_fields in order,
\* skipping None.
RECURSIVE CreditLoop(_, _, _)
CreditLoop(t, i, credit_sum) ==
    IF i > Len(model_fields) THEN credit_sum
    ELSE IF IsNone(t.slots[i]) THEN CreditLoop(t, i + 1, credit_sum)
    ELSE CreditLoop(t, i + 1,
             credit_sum + monthly_allowed_tax_credit(Val(t.slots[i])))
\* A slip in the loop: the first field skipped.
Mutant_Table_total_tax_credit(t) == Ok(CreditLoop(t, 2, 0))
Table_total_tax_credit(t) == Ok(CreditLoop(t, 1, 0))

\* MonthlyCalculationTable.total_advance_payment: over model_fields_set,
\* reading .f of each field's value; None has no attribute f.
RECURSIVE AdvanceLoop(_, _, _)
AdvanceLoop(t, fields, advance_sum) ==
    IF fields = {} THEN Ok(advance_sum)
    ELSE LET field == MinOf(fields)
             field_value == t.slots[field]
         IN IF IsNone(field_value) THEN Raise("AttributeError")
            ELSE AdvanceLoop(t, fields \ {field},
                             advance_sum + Val(field_value).f)
Table_total_advance_payment(t) == AdvanceLoop(t, t.model_fields_set, 0)

--------------------------------------------------------------------------
(* year2022.py: Form8962.  name_on_return and                              *)
(* another_taxpayer_or_alternative_calculation are read by no derivation   *)
(* and are left out of the record.                                         *)

\* Form8962(**kwargs): the field validators run; a ValueError of a validator
\* is a ValidationError and no form is built.
Form8962(kwargs) ==
    IF ~validate_ssn_pattern(kwargs.ssn) THEN Raise("ValidationError")
    ELSE Ok([ssn |-> kwargs.ssn,
             tax_family_size |-> kwargs.tax_family_size,
             modified_agi |-> WholeDollar(kwargs.modified_agi),
             dependents_modified_agi |->
                 OptWholeDollar(kwargs.dependents_modified_agi),
             state_of_residence |-> kwargs.state_of_residence,
             line_10 |-> kwargs.line_10,
             annual_enrollment_premiums |->
                 OptWholeDollar(kwargs.annual_enrollment_premiums),
             annual_slcsp_premium |->
                 OptWholeDollar(kwargs.annual_slcsp_premium),
             annual_advance_payment |->
                 OptWholeDollar(kwargs.annual_advance_payment),
             monthly_calculation |-> kwargs.monthly_calculation])

household_income(self) ==
    LET income == self.modified_agi
    IN IF IsNone(self.dependents_modified_agi) THEN income
       ELSE income + Val(self.dependents_modified_agi)

poverty_line(self) ==
    get_poverty_rate(poverty_lines, self.state_of_residence,
                     self.tax_family_size)

\* percentage = household_income / poverty_line, a float division;
\* make_whole_number(percentage * 100) if percentage <= 4.0 else 401
PercentFrom(percentage) ==
    IF FloatLeqInt(percentage, 4)
    THEN make_whole_number(FloatMulInt(percentage, 100))
    ELSE 401
PercentOf(income, line) == PercentFrom(FloatDiv(income, line))

percent_of_poverty_line(self) ==
    Then(poverty_line(self), LAMBDA line :
        IF line = 0 THEN Raise("ZeroDivisionError")
        ELSE Ok(PercentOf(household_income(self), line)))

applicable_figure(self) ==
    Then(percent_of_poverty_line(self), LAMBDA percent : get_figure(percent))

\* Line 8a: int(round(household_income * applicable_figure, 0))
AnnualOf(income, figure) ==
    FloatRound(FloatMulInt(FigureFloat(figure), income))

annual_contribution(self) ==
    Then(applicable_figure(self), LAMBDA figure :
        Ok(AnnualOf(household_income(self), figure)))

\* Line 8b: int(round(annual_contribution / 12, 0))
MonthlyOf(annual) == FloatRound(FloatDiv(annual, 12))

monthly_contribution(self) ==
    Then(annual_contribution(self), LAMBDA annual : Ok(MonthlyOf(annual)))

line_11_c(self) ==
    IF self.line_10
    THEN Then(annual_contribution(self), LAMBDA annual : Ok(Some(annual)))
    ELSE Ok(None)

\* A slip in line 11(d): the subtraction the other way round, as in the
\* monthly rows.
Mutant_annual_max_premium_assist(self) ==
    IF self.line_10
    THEN Then(line_11_c(self), LAMBDA c :
            IF IsNone(c) THEN Raise("AssertionError")
            ELSE IF IsNone(self.annual_slcsp_premium)
                 THEN Raise("AssertionError")
            ELSE Ok(Some(Max2(Val(self.annual_slcsp_premium) - Val(c), 0))))
    ELSE Ok(None)

\* Line 11(d)
annual_max_premium_assist(self) ==
    IF self.line_10
    THEN Then(line_11_c(self), LAMBDA c :
            IF IsNone(c) THEN Raise("AssertionError")
            ELSE IF IsNone(self.annual_slcsp_premium)
                 THEN Raise("AssertionError")
            ELSE Ok(Some(Max2(Val(c) - Val(self.annual_slcsp_premium), 0))))
    ELSE Ok(None)

\* Line 11(e)
annual_allowed_tax_credit(self) ==
    IF self.line_10
    THEN IF IsNone(self.annual_enrollment_premiums)
         THEN Raise("AssertionError")
         ELSE Then(annual_max_premium_assist(self), LAMBDA d :
                 IF IsNone(d) THEN Raise("AssertionError")
                 ELSE Ok(Some(Min2(Val(self.annual_enrollment_premiums),
                                   Val(d)))))
    ELSE Ok(None)

\* Part II, Line 24
total_tax_credit(self) ==
    Then(annual_allowed_tax_credit(self), LAMBDA credit :
        IF IsNone(credit)
        THEN IF IsNone(self.monthly_calculation)
             THEN Raise("AssertionError")
             ELSE Table_total_tax_credit(Val(self.monthly_calculation))
        ELSE Ok(Val(credit)))

\* Part II, Line 25
total_advance_payment(self) ==
    IF IsNone(self.annual_advance_payment)
    THEN IF IsNone(self.monthly_calculation)
         THEN Raise("AssertionError")
         ELSE Table_total_advance_payment(Val(self.monthly_calculation))
    ELSE Ok(Val(self.annual_advance_payment))

\* A slip in line 26: the difference returned whatever its sign.
Mutant_NetOf(credit, payment) == Some(credit - payment)

\* Line 26: the difference, 0, or None
NetOf(credit, payment) ==
    IF credit > payment THEN Some(credit - payment)
    ELSE IF credit = payment THEN Some(0)
    ELSE None

net_tax_credit(self) ==
    Then(total_tax_credit(self), LAMBDA credit :
        Then(total_advance_payment(self), LAMBDA payment :
            Ok(NetOf(credit, payment))))

--------------------------------------------------------------------------
(* The program state: the form and the table a caller holds, and the       *)
(* outcome of the last call or property read.  A behaviour builds at most  *)
(* one form and one table, as the demo does; the lookups and the           *)
(* properties are pure and may be evaluated in any state.                  *)
VARIABLES
    form,      \* None, or Some(the Form8962 built last)
    table,     \* None, or Some(the MonthlyCalculationTable built last)
    result     \* [op, args, out]: the last operation, its arguments, outcome

vars == <<form, table, result>>

Done(op, args, out) == [op |-> op, args |-> args, out |-> out]

Init ==
    /\ form = None
    /\ table = None
    /\ result = Done("init", <<>>, Raise("none"))

(* Bounds of the inputs. *)
MinFamilySize == 0
MaxFamilySize == 12
MinPercent == 140
MaxPercent == 410
IncomeStep == 1359
MaxIncomeSteps == 45
MaxGivenMonths == 2

FamilySizes == MinFamilySize..MaxFamilySize
Percents == {-1, 0, 500} \cup (MinPercent..MaxPercent)
\* Incomes in cents: whole dollars on a grid, and the same with 99 cents.
Incomes == {100 * IncomeStep * i + c : i \in 0..MaxIncomeSteps, c \in {0, 99}}

SSNs ==
    { <<"d", "d", "d", "-", "d", "d", "-", "d", "d", "d", "d">>,
      <<"d", "d", "d", "d", "d", "d", "d", "d", "d">>,
      <<"d", "d", "d", "-", "d", "d", "d", "d", "d", "d">>,
      <<"d", "d", "d", "-", "d", "d", "-", "d", "d", "d", "x">> }

\* The demo's form (year2022.py, __main__), fields to be overridden.
DemoKwargs ==
    [ssn |-> <<"d", "d", "d", "-", "d", "d", "-", "d", "d", "d", "d">>,
     tax_family_size |-> 4,
     modified_agi |-> 7719400,
     dependents_modified_agi |-> None,
     state_of_residence |-> "CONTIGUOUS_48_AND_DC",
     line_10 |-> FALSE,
     annual_enrollment_premiums |-> None,
     annual_slcsp_premium |-> None,
     annual_advance_payment |-> None,
     monthly_calculation |-> None]

\* Forms that differ in what the income chain reads.
IncomeKwargs ==
    { [DemoKwargs EXCEPT !.tax_family_size = n, !.modified_agi = agi,
                         !.state_of_residence = st]
        : n \in {1, 4, 9}, agi \in Incomes, st \in StateOfResidenceEnum }

\* Rows of a table (amounts in cents).
RowSet ==
    { MonthlyCalculationRow(70000, 50000, 32900, 10000),
      MonthlyCalculationRow(15099, 50000, 32900, 25000),
      MonthlyCalculationRow(70000, 50000, 60000, 10000) }

\* Constructor arguments of a table: up to MaxGivenMonths months given, each
\* as a row or as None.
TableKwargs ==
    UNION { [S -> {None} \cup {Some(r) : r \in RowSet}]
              : S \in {T \in SUBSET Months : Cardinality(T) <= MaxGivenMonths} }

\* A few tables for the forms of the two paths: the first two months given
\* or not.
PathRowSet ==
    { MonthlyCalculationRow(70000, 50000, 32900, 10000),
      MonthlyCalculationRow(15099, 50000, 32900, 25000) }
PathTableKwargs ==
    UNION { [S -> {None} \cup {Some(r) : r \in PathRowSet}]
              : S \in SUBSET {1, 2} }

\* Forms that differ in what the path selection reads, built with the table
\* t (None, or the table the caller holds).
PathKwargs(t) ==
    { [DemoKwargs EXCEPT !.tax_family_size = n,
                         !.line_10 = l10,
                         !.annual_enrollment_premiums = ep,
                         !.annual_slcsp_premium = sp,
                         !.annual_advance_payment = ap,
                         !.monthly_calculation = mc]
        : n \in {DemoKwargs.tax_family_size}, l10 \in BOOLEAN,
          ep \in {None, Some(50000), Some(500000)},
          sp \in {None, Some(300000), Some(600000)},
          ap \in {None, Some(50000), Some(200000)},
          mc \in {None, t} }
    \cup { [DemoKwargs EXCEPT !.ssn = ssn, !.tax_family_size = n]
             : ssn \in SSNs, n \in {-1, 0, 4} }

(* Direct calls of the two lookups. *)
Call_get_poverty_rate ==
    \E st \in StateOfResidenceEnum, n \in FamilySizes :
        /\ result' = Done("get_poverty_rate", <<st, n>>,
                          get_poverty_rate(poverty_lines, st, n))
        /\ UNCHANGED <<form, table>>

Call_get_figure ==
    \E percent \in Percents :
        /\ result' = Done("get_figure", <<percent>>, get_figure(percent))
        /\ UNCHANGED <<form, table>>

(* Construction. *)
Construct_Form8962(Kwargs) ==
    /\ form = None
    /\ \E kw \in Kwargs :
        LET built == Form8962(kw)
        IN /\ result' = Done("Form8962", <<kw>>, built)
           /\ form' = IF IsOk(built) THEN Some(Get(built)) ELSE form
           /\ UNCHANGED table

Construct_MonthlyCalculationTable(Kwargs) ==
    /\ table = None
    /\ \E kw \in Kwargs :
        /\ table' = Some(MonthlyCalculationTable(kw))
        /\ result' = Done("MonthlyCalculationTable", <<kw>>, Ok(table'))
        /\ UNCHANGED form

\* my_form.monthly_calculation = _my_table
Assign_monthly_calculation ==
    /\ form # None /\ table # None
    /\ Val(form).monthly_calculation = None
    /\ form' = Some([Val(form) EXCEPT !.monthly_calculation = table])
    /\ result' = Done("assign", <<>>, Ok(None))
    /\ UNCHANGED table

(* Reading a property of the form or of the table. *)
ReadForm(op, out) ==
    /\ form # None
    /\ result' = Done(op, <<>>, out)
    /\ UNCHANGED <<form, table>>

Read_percent_of_poverty_line ==
    ReadForm("percent_of_poverty_line", percent_of_poverty_line(Val(form)))
Read_applicable_figure ==
    ReadForm("applicable_figure", applicable_figure(Val(form)))
Read_annual_contribution ==
    ReadForm("annual_contribution", annual_contribution(Val(form)))
Read_monthly_contribution ==
    ReadForm("monthly_contribution", monthly_contribution(Val(form)))
Read_annual_max_premium_assist ==
    ReadForm("annual_max_premium_assist", annual_max_premium_assist(Val(form)))
Read_annual_allowed_tax_credit ==
    ReadForm("annual_allowed_tax_credit", annual_allowed_tax_credit(Val(form)))
Read_total_tax_credit ==
    ReadForm("total_tax_credit", total_tax_credit(Val(form)))
Read_total_advance_payment ==
    ReadForm("total_advance_payment", total_advance_payment(Val(form)))
Read_net_tax_credit ==
    ReadForm("net_tax_credit", net_tax_credit(Val(form)))

Read_Table_total_tax_credit ==
    /\ table # None
    /\ result' = Done("Table.total_tax_credit", <<>>,
                      Table_total_tax_credit(Val(table)))
    /\ UNCHANGED <<form, table>>

Read_Table_total_advance_payment ==
    /\ table # None
    /\ result' = Done("Table.total_advance_payment", <<>>,
                      Table_total_advance_payment(Val(table)))
    /\ UNCHANGED <<form, table>>

(* The lookups alone. *)
NextLookup == Call_get_poverty_rate \/ Call_get_figure
SpecLookup == Init /\ [][NextLookup]_vars

(* The income chain of a form: lines 3 to 8b. *)
NextIncome ==
    \/ Construct_Form8962(IncomeKwargs)
    \/ Read_percent_of_poverty_line
    \/ Read_applicable_figure
    \/ Read_annual_contribution
    \/ Read_monthly_contribution
SpecIncome == Init /\ [][NextIncome]_vars

(* A monthly table alone. *)
NextTable ==
    \/ Construct_MonthlyCalculationTable(TableKwargs)
    \/ Read_Table_total_tax_credit
    \/ Read_Table_total_advance_payment
SpecTable == Init /\ [][NextTable]_vars

(* The two paths of a form: lines 11 to 26. *)
NextPath ==
    \/ Construct_Form8962(PathKwargs(table))
    \/ Construct_MonthlyCalculationTable(PathTableKwargs)
    \/ Assign_monthly_calculation
    \/ Read_annual_max_premium_assist
    \/ Read_annual_allowed_tax_credit
    \/ Read_total_tax_credit
    \/ Read_total_advance_payment
    \/ Read_net_tax_credit
SpecPath == Init /\ [][NextPath]_vars

Next == NextLookup \/ NextIncome \/ NextTable \/ NextPath
Spec == Init /\ [][Next]_vars
--------------------------------------------------------------------------
(* Properties.  First the vocabulary the statements use, written without   *)
(* the operators that model the code.                                      *)

FormOf == Val(form)
IsRead(op) == form # None /\ result.op = op
HasMonthly == FormOf.monthly_calculation # None
MonthlyOfForm == Val(FormOf.monthly_calculation)

\* The integer part of income * 100 / line up to a ratio of 4, 401 above.
ExactPercent(income, line) ==
    IF income <= 4 * line THEN (income * 100) \div line ELSE 401

\* The literal table and increment of a residency category.
Tabulated(st) ==
    CASE st = "CONTIGUOUS_48_AND_DC" -> CONTIGUOUS_48_AND_DC
      [] st = "ALASKA" -> ALASKA
      [] st = "HAWAII" -> HAWAII
Increment(st) ==
    CASE st = "CONTIGUOUS_48_AND_DC" -> CONTIGUOUS_48_AND_DC_EXTRA
      [] st = "ALASKA" -> ALASKA_EXTRA
      [] st = "HAWAII" -> HAWAII_EXTRA

\* annual / 12 rounded half up.
HalfUp12(annual) == (annual + 6) \div 12

\* The annual path is selected and its three figures are present.
AnnualPathComplete ==
    /\ form # None
    /\ FormOf.line_10
    /\ FormOf.annual_enrollment_premiums # None
    /\ FormOf.annual_slcsp_premium # None
    /\ FormOf.annual_advance_payment # None

\* The sum of f[m] over the months m of S.
RECURSIVE SumOver(_, _)
SumOver(S, f) ==
    IF S = {} THEN 0
    ELSE LET m == CHOOSE x \in S : TRUE
         IN f[m] + SumOver(S \ {m}, f)
Populated(t) == {m \in Months : t.slots[m] # None}

\* min(enrollment_premium, max(0, benchmark_premium - contribution))
RowCredit(row) ==
    LET capped == IF row.b - row.c < 0 THEN 0 ELSE row.b - row.c
    IN IF row.a < capped THEN row.a ELSE capped

\* The table with the contents of slots i and j exchanged.
Exchange(t, i, j) ==
    [t EXCEPT !.slots = [m \in Months |->
        IF m = i THEN t.slots[j] ELSE IF m = j THEN t.slots[i]
        ELSE t.slots[m]]]

\* An input of the selected path is missing.
LacksPathInput(f) ==
    \/ f.line_10 /\ (\/ f.annual_enrollment_premiums = None
                     \/ f.annual_slcsp_premium = None
                     \/ f.annual_advance_payment = None)
    \/ ~f.line_10 /\ f.monthly_calculation = None

\* The identifiers of SSNs that are nine digits, plain or as ddd-dd-dddd.
WellFormedSSN ==
    { <<"d", "d", "d", "-", "d", "d", "-", "d", "d", "d", "d">>,
      <<"d", "d", "d", "d", "d", "d", "d", "d", "d">> }

--------------------------------------------------------------------------
\* C1 (as stated; the code breaks it): for household_income >= 0 and
\* poverty_line > 0, percent_of_poverty_line is the integer part of
\* household_income * 100 / poverty_line when the ratio is at most 4.0 (400
\* at exactly 4.0), and 401 above; so it lies in 0..401.
OrigC1 ==
    (/\ IsRead("percent_of_poverty_line")
     /\ household_income(FormOf) >= 0
     /\ IsOk(poverty_line(FormOf))
     /\ Get(poverty_line(FormOf)) > 0)
    => /\ IsOk(result.out)
       /\ Get(result.out) \in 0..401
       /\ Get(result.out) =
              ExactPercent(household_income(FormOf), Get(poverty_line(FormOf)))

\* C2: for every residency category, a household size n in 1..8 looks up the
\* tabulated value of (category, n); n = 8 + k, k > 0, gives the value at 8
\* plus k times the category's increment; the lookup never fails.
ThmC2 ==
    result.op = "get_poverty_rate" =>
        LET st == result.args[1]
            n == result.args[2]
        IN n >= 1 =>
            /\ IsOk(result.out)
            /\ n <= 8 => Get(result.out) = Tabulated(st)[n]
            /\ n > 8 => Get(result.out) =
                            Tabulated(st)[8] + (n - 8) * Increment(st)

\* C2's case: Alaska, ten persons, two beyond the table.
WitC2 ==
    /\ result.op = "get_poverty_rate"
    /\ result.args = <<"ALASKA", 10>>
    /\ result.out = Ok(58290 + 2 * 5900)

\* C3: for every integer percent the applicable-figure lookup returns a
\* rate and never fails: the rate at 150 (0.0000) for percent <= 150, the
\* rate at 400 (0.0850) for percent > 400, and the entry stored at percent in
\* 151..400, where every integer has an entry.
ThmC3 ==
    result.op = "get_figure" =>
        LET percent == result.args[1]
        IN /\ IsOk(result.out)
           /\ percent <= 150 =>
                 /\ Get(result.out) = applicable_figures_dict[150]
                 /\ Get(result.out) = 0
           /\ percent > 400 =>
                 /\ Get(result.out) = applicable_figures_dict[400]
                 /\ Get(result.out) = 850
           /\ percent \in 151..400 =>
                 /\ percent \in DOMAIN applicable_figures_dict
                 /\ Get(result.out) = applicable_figures_dict[percent]

\* C3's case: the sentinel 401 looked up.
WitC3 ==
    /\ result.op = "get_figure"
    /\ result.args = <<401>>
    /\ result.out = Ok(850)

\* C4 (as stated; the code breaks it): for every annual_contribution >= 0,
\* monthly_contribution is annual_contribution / 12 rounded half up: the next
\* higher integer when the remainder is exactly 6, else the nearest integer.
OrigC4 ==
    (/\ IsRead("monthly_contribution")
     /\ IsOk(annual_contribution(FormOf))
     /\ Get(annual_contribution(FormOf)) >= 0)
    => /\ IsOk(result.out)
       /\ Get(result.out) = HalfUp12(Get(annual_contribution(FormOf)))

\* C5 (as stated; the code breaks it): with line_10 false and a monthly
\* table present, whatever the annual figures hold, total_tax_credit is the
\* table's total allowed credit and total_advance_payment is the table's
\* total advance payment.
OrigC5 ==
    (form # None /\ ~FormOf.line_10 /\ HasMonthly) =>
        /\ result.op = "total_tax_credit" =>
               result.out = Table_total_tax_credit(MonthlyOfForm)
        /\ result.op = "total_advance_payment" =>
               result.out = Table_total_advance_payment(MonthlyOfForm)

\* C6: with line_10 true and the three annual figures present, with or
\* without a monthly table: annual_max_assist is
\* max(0, annual_contribution - annual_slcsp_premium), annual_allowed_credit
\* is min(annual_enrollment_premiums, annual_max_assist), total_tax_credit is
\* annual_allowed_credit and total_advance_payment is annual_advance_payment.
ThmC6 ==
    AnnualPathComplete =>
        LET contribution == Get(annual_contribution(FormOf))
            difference == contribution - Val(FormOf.annual_slcsp_premium)
            assist == IF difference < 0 THEN 0 ELSE difference
            premiums == Val(FormOf.annual_enrollment_premiums)
            allowed == IF premiums < assist THEN premiums ELSE assist
        IN /\ result.op = "annual_max_premium_assist" =>
                  result.out = Ok(Some(assist))
           /\ result.op = "annual_allowed_tax_credit" =>
                  result.out = Ok(Some(allowed))
           /\ result.op = "total_tax_credit" => result.out = Ok(allowed)
           /\ result.op = "total_advance_payment" =>
                  result.out = Ok(Val(FormOf.annual_advance_payment))

\* C6's case: the annual path with a populated monthly table also present;
\* the contribution 3952 less the SLCSP premium 3000 is the credit.
WitC6 ==
    /\ AnnualPathComplete
    /\ HasMonthly
    /\ Populated(MonthlyOfForm) # {}
    /\ FormOf.annual_slcsp_premium = Some(3000)
    /\ FormOf.annual_enrollment_premiums = Some(5000)
    /\ result.op = "total_tax_credit"
    /\ result.out = Ok(952)

\* C7: net_result is one of three outcomes: the difference credit - advance,
\* strictly positive, when credit > advance; zero when they are equal; the
\* absent value, which is not zero, when credit < advance.  It is never a
\* negative amount.
ThmC7 ==
    (/\ IsRead("net_tax_credit")
     /\ IsOk(total_tax_credit(FormOf))
     /\ IsOk(total_advance_payment(FormOf)))
    => LET credit == Get(total_tax_credit(FormOf))
           advance == Get(total_advance_payment(FormOf))
           net == Get(result.out)
       IN /\ IsOk(result.out)
          /\ credit > advance <=>
                 (net # None /\ Val(net) = credit - advance /\ Val(net) > 0)
          /\ credit = advance <=> net = Some(0)
          /\ credit < advance <=> net = None
          /\ net # None => Val(net) >= 0

\* C7's case: the advance payments exceed the credit and the net result is
\* absent.
WitC7 ==
    /\ IsRead("net_tax_credit")
    /\ total_tax_credit(FormOf) = Ok(500)
    /\ total_advance_payment(FormOf) = Ok(2000)
    /\ result.out = Ok(None)

\* C8 (as stated; the code breaks it): total_advance_payment of a monthly
\* table, each slot of which is unset, given as None or a row, is the sum of
\* f over the populated slots; absent slots are skipped without failing; no
\* populated slot gives 0.
OrigC8 ==
    (table # None /\ result.op = "Table.total_advance_payment") =>
        result.out = Ok(SumOver(Populated(Val(table)),
                [m \in Populated(Val(table)) |-> Val(Val(table).slots[m]).f]))

\* C9: total_allowed_credit of a monthly table is the sum over the populated
\* slots of min(enrollment_premium, max(0, benchmark_premium -
\* monthly_contribution_amount)); it is the same for the rows permuted among
\* the twelve slots (every exchange of two slots, which generate the
\* permutations); no populated slot gives 0.
ThmC9 ==
    (table # None /\ result.op = "Table.total_tax_credit") =>
        LET t == Val(table)
        IN /\ result.out = Ok(SumOver(Populated(t),
                  [m \in Populated(t) |-> RowCredit(Val(t.slots[m]))]))
           /\ Populated(t) = {} => result.out = Ok(0)
           /\ \A i, j \in Months :
                  Table_total_tax_credit(Exchange(t, i, j)) = result.out

\* C9's case: two populated slots with rows of credit 150 and 171.
WitC9 ==
    /\ table # None
    /\ result.op = "Table.total_tax_credit"
    /\ \E i, j \in Months :
           /\ i < j
           /\ Val(table).slots[i] # None
           /\ Val(table).slots[j] # None
           /\ RowCredit(Val(Val(table).slots[i])) = 150
           /\ RowCredit(Val(Val(table).slots[j])) = 171
    /\ result.out = Ok(321)

ThmC11 ==
    result.op = "get_figure" =>
        LET p == result.args[1]
        IN /\ IsOk(result.out)
           /\ Get(result.out) \in 0..850
           /\ \A q \in Percents :
                  /\ IsOk(get_figure(q))
                  /\ p <= q => Get(result.out) <= Get(get_figure(q))
                  /\ q <= p => Get(get_figure(q)) <= Get(result.out)

\* C11's case: a percent inside the table looked up, with a strictly lower
\* rate at a percent below 150 and a strictly higher one above 400.
WitC11 ==
    /\ result.op = "get_figure"
    /\ result.args[1] \in 151..400
    /\ IsOk(result.out)
    /\ \E q \in Percents :
           q < 150 /\ IsOk(get_figure(q))
                   /\ Get(get_figure(q)) < Get(result.out)
    /\ \E q \in Percents :
           q > 400 /\ IsOk(get_figure(q))
                   /\ Get(result.out) < Get(get_figure(q))
====
